---- MODULE Spec2Model ----
(***************************************************************************)
(* go-raftchunking: the chunk encoder (ChunkingApply), the aggregate       *)
(* future (multiFuture) and the reassembling state-machine decorator       *)
(* (ChunkingFSM.Apply), modelled from the Go sources.                      *)
(*                                                                         *)
(* Byte slices are sequences of naturals.  A Go value that may be nil is   *)
(* a sequence of length at most one: <<>> is nil, <<v>> is the value v.    *)
(* An error is a string, "" standing for the nil error.                    *)
(***************************************************************************)
EXTENDS Integers, Sequences, FiniteSets, TLC

VARIABLES
    ops,          \* the ChunkingApply calls begun so far: the entries each built, the applyFunc calls it has made, whether it has returned
    handles,      \* handles[o][k]: the per-chunk ApplyFuture returned by the k-th applyFunc call of ops[o]
    mf,           \* the caller's Error() call on the future returned by ops[1]
    opMap,        \* ChunkingFSM.opMap (part_003): op number -> chunk slots
    lastTerm,     \* ChunkingFSM.lastTerm
    underlying,   \* the entries the wrapped FSM of the part_003 decorator has received
    panicked,     \* the part_003 decorator's process died of a runtime panic
    mwOpMap,      \* ChunkingFSM.opMap (part_004): op id -> chunks received
    mwUnderlying, \* the entries the wrapped FSM of the part_004 decorator has received
    index,        \* the raft log index of the last entry handed to Apply
    last,         \* the last Apply: which chunk it was given and what each decorator returned
    prog,         \* prog[o]: n when op o's chunks 0..n-1, and nothing else of o, were applied in order; -1 otherwise
    seen,         \* seen[o]: the chunks of op o applied so far
    terms,        \* the terms the applied entries carried
    exported,     \* the table the last CurrentState call returned, nil before the first call
    termOf,       \* termOf[<<o, k>>]: the term of the last entry that carried chunk k-1 of op o
    crafted,      \* the chunk metadata and terms of the hand-made entries applied so far, in order
    batch,        \* the last ApplyBatch call: the entries given, the results returned, the wrapped FSM's batches
    restored      \* the last RestoreState call, when no Apply has followed it: the state given

encVars == <<ops, handles, mf>>
fsmVars == <<opMap, lastTerm, underlying, panicked>>
mwVars == <<mwOpMap, mwUnderlying>>
hostVars == <<index, last, prog, seen, terms, exported, termOf, crafted, batch, restored>>
vars == <<ops, handles, mf, opMap, lastTerm, underlying, panicked, mwOpMap, mwUnderlying,
          index, last, prog, seen, terms, exported, termOf, crafted, batch, restored>>

(***************************************************************************)
(* Bounds of the model and scaled program constants.                       *)
(***************************************************************************)
\* longest command handed to ChunkingApply
MaxCmdLen == 5
\* most entries the host hands to Apply where it may repeat and reorder them
MaxApplies == 3
\* most entries the host hands to ApplyBatch, over all its batches
MaxBatch == 5
\* raft.SuggestedMaxDataSize (512 KiB in raft), scaled down
SuggestedMaxDataSize == 2

Nil == <<>>
Some(v) == <<v>>

\* the 64-bit operation ids the random source yields in the model: zero, a
\* one-byte varint and a two-byte varint
OpIds == {0, 1, 300}
\* the caller's trailing extensions: nil, and bytes that are no ChunkInfo encoding
Exts == {Nil, Some(<<1>>)}
\* per-chunk timeouts
Timeouts == {1, 2}
\* outcomes of rand.Read(rb): an error, a short read, or 8 bytes giving an id
RandOutcomes == {[err |-> "rand", n |-> 0, id |-> 0], [err |-> "", n |-> 7, id |-> 0]}
                   \cup {[err |-> "", n |-> 8, id |-> i] : i \in OpIds}
\* errors a per-chunk handle may report
HandleErrs == {"ErrNotLeader", "ErrEnqueueTimeout"}

\* the command of length n of the o-th call: its bytes are distinct and occur
\* in no other call's command, so that a lost, repeated, reordered or foreign
\* byte shows
Cmd(o, n) == [i \in 1..n |-> 10 * o + i]
Cmds(o) == {Cmd(o, n) : n \in 0..MaxCmdLen}

(***************************************************************************)
(* The protobuf wire encoding of types.ChunkInfo (proto3):                 *)
(*   1: op_num uint64, 2: sequence_num uint32, 3: num_chunks uint32,       *)
(*   4: next_extensions bytes.  Fields holding the zero value are omitted. *)
(* Every number of the model is far below 2^32, so the uint32 and uint64   *)
(* conversions of the source change no value and varints of more than four *)
(* bytes do not occur.                                                     *)
(***************************************************************************)
RECURSIVE Varint(_)
Varint(n) == IF n < 128 THEN <<n>> ELSE <<(n % 128) + 128>> \o Varint(n \div 128)

\* proto.Marshal(chunkInfo)
Marshal(ci) ==
    (IF ci.OpNum # 0 THEN <<8>> \o Varint(ci.OpNum) ELSE <<>>)
    \o (IF ci.SequenceNum # 0 THEN <<16>> \o Varint(ci.SequenceNum) ELSE <<>>)
    \o (IF ci.NumChunks # 0 THEN <<24>> \o Varint(ci.NumChunks) ELSE <<>>)
    \o (IF ci.NextExtensions # Nil /\ Len(ci.NextExtensions[1]) > 0
        THEN <<34>> \o Varint(Len(ci.NextExtensions[1])) \o ci.NextExtensions[1]
        ELSE <<>>)

\* reading one varint of b at position p: [ok, val, next]
RECURSIVE ReadVarint(_, _, _, _)
ReadVarint(b, p, shift, acc) ==
    IF p > Len(b) \/ shift > 3 THEN [ok |-> FALSE, val |-> 0, next |-> p]
    ELSE IF b[p] < 128
         THEN [ok |-> TRUE, val |-> acc + b[p] * (128 ^ shift), next |-> p + 1]
         ELSE ReadVarint(b, p + 1, shift + 1, acc + (b[p] - 128) * (128 ^ shift))

EmptyChunkInfo == [OpNum |-> 0, SequenceNum |-> 0, NumChunks |-> 0, NextExtensions |-> Nil]

\* the field loop of proto.Unmarshal: [ok, ci]
RECURSIVE ParseFields(_, _, _)
ParseFields(b, p, ci) ==
    IF p > Len(b) THEN [ok |-> TRUE, ci |-> ci]
    ELSE LET tag == ReadVarint(b, p, 0, 0)
             num == tag.val \div 8
             wt  == tag.val % 8
             bad == [ok |-> FALSE, ci |-> EmptyChunkInfo]
         IN IF ~tag.ok \/ num = 0 THEN bad
            ELSE IF wt = 0 THEN
                LET v == ReadVarint(b, tag.next, 0, 0) IN
                IF ~v.ok THEN bad
                ELSE ParseFields(b, v.next,
                        IF num = 1 THEN [ci EXCEPT !.OpNum = v.val]
                        ELSE IF num = 2 THEN [ci EXCEPT !.SequenceNum = v.val]
                        ELSE IF num = 3 THEN [ci EXCEPT !.NumChunks = v.val]
                        ELSE ci)
            ELSE IF wt = 2 THEN
                LET n == ReadVarint(b, tag.next, 0, 0) IN
                IF ~n.ok \/ n.next + n.val - 1 > Len(b) THEN bad
                ELSE ParseFields(b, n.next + n.val,
                        IF num = 4 /\ n.val > 0
                        THEN [ci EXCEPT !.NextExtensions = Some(SubSeq(b, n.next, n.next + n.val - 1))]
                        ELSE IF num = 4 THEN [ci EXCEPT !.NextExtensions = Nil]
                        ELSE ci)
            ELSE IF wt = 1 THEN
                IF tag.next + 7 > Len(b) THEN bad ELSE ParseFields(b, tag.next + 8, ci)
            ELSE IF wt = 5 THEN
                IF tag.next + 3 > Len(b) THEN bad ELSE ParseFields(b, tag.next + 4, ci)
            ELSE bad

\* proto.Unmarshal(l.Extensions, &ci)
Unmarshal(b) == ParseFields(b, 1, EmptyChunkInfo)

(***************************************************************************)
(* ChunkingApply                                                           *)
(***************************************************************************)
\* the number of pieces of at most SuggestedMaxDataSize bytes in n bytes
NumPieces(n) == (n + SuggestedMaxDataSize - 1) \div SuggestedMaxDataSize

\* the read loop: consecutive pieces of at most SuggestedMaxDataSize bytes.
\* reader.Read on a bytes.Reader with remain > 0 bytes left fills b whole, so
\* neither error return of the loop is taken.
\* mutant: the loop stops at a piece shorter than SuggestedMaxDataSize
RECURSIVE ReadChunksDropsTail(_, _)
ReadChunksDropsTail(rest, byteChunks) ==
    IF Len(rest) < SuggestedMaxDataSize THEN byteChunks
    ELSE ReadChunksDropsTail(SubSeq(rest, SuggestedMaxDataSize + 1, Len(rest)),
                             Append(byteChunks, SubSeq(rest, 1, SuggestedMaxDataSize)))

\* mutant: the loop tests remain after reading, so an empty command yields
\* one empty piece
RECURSIVE ReadChunksEmptyPiece(_, _)
ReadChunksEmptyPiece(rest, byteChunks) ==
    LET remain0 == Len(rest)
        remain  == IF remain0 > SuggestedMaxDataSize THEN SuggestedMaxDataSize ELSE remain0
        left    == SubSeq(rest, remain + 1, Len(rest))
    IN IF Len(left) <= 0 THEN Append(byteChunks, SubSeq(rest, 1, remain))
       ELSE ReadChunksEmptyPiece(left, Append(byteChunks, SubSeq(rest, 1, remain)))

RECURSIVE ReadChunks(_, _)
ReadChunks(rest, byteChunks) ==
    LET remain0 == Len(rest)
        remain  == IF remain0 > SuggestedMaxDataSize THEN SuggestedMaxDataSize ELSE remain0
    IN IF remain0 <= 0 THEN byteChunks
       ELSE ReadChunks(SubSeq(rest, remain + 1, Len(rest)),
                       Append(byteChunks, SubSeq(rest, 1, remain)))

\* a raft.Log; fields the encoder leaves unset hold Go's zero values
\* (raft.LogCommand is LogType 0)
NewLog(data, extensions) ==
    [Index |-> 0, Term |-> 0, Type |-> "LogCommand", Data |-> data, Extensions |-> extensions,
     ChunkInfo |-> Nil]

\* mutant: the extension is attached to every chunk
ChunkLogsExtensionOnAll(id, byteChunks, extensions) ==
    [i \in 1..Len(byteChunks) |->
        NewLog(byteChunks[i],
               Some(Marshal([OpNum |-> id, SequenceNum |-> i - 1,
                             NumChunks |-> Len(byteChunks), NextExtensions |-> extensions])))]

\* the metadata loop: one raft.Log per chunk
ChunkLogs(id, byteChunks, extensions) ==
    [i \in 1..Len(byteChunks) |->
        LET chunkInfo == [OpNum |-> id,
                          SequenceNum |-> i - 1,
                          NumChunks |-> Len(byteChunks),
                          NextExtensions |-> IF i - 1 = Len(byteChunks) - 1 THEN extensions ELSE Nil]
        IN NewLog(byteChunks[i], Some(Marshal(chunkInfo)))]

\* mutant: the number of random bytes read is not checked
ChunkingApplyResultNoLengthCheck(cmd, extensions, timeout, rnd) ==
    IF rnd.err # "" THEN
        [calls |-> <<>>, future |-> [kind |-> "errorFuture", err |-> rnd.err]]
    ELSE LET logs == ChunkLogs(rnd.id, ReadChunks(cmd, <<>>), extensions)
         IN [calls |-> [i \in 1..Len(logs) |-> [log |-> logs[i], timeout |-> timeout]],
             future |-> [kind |-> "multiFuture", err |-> ""]]

\* the value ChunkingApply computes: the applyFunc invocations it makes, in
\* order, and the future it returns
ChunkingApplyResult(cmd, extensions, timeout, rnd) ==
    IF rnd.err # "" THEN
        [calls |-> <<>>, future |-> [kind |-> "errorFuture", err |-> rnd.err]]
    ELSE IF rnd.n # 8 THEN
        [calls |-> <<>>, future |-> [kind |-> "errorFuture", err |-> "expected to read 8 bytes for op ID"]]
    ELSE LET logs == ChunkLogs(rnd.id, ReadChunks(cmd, <<>>), extensions)
         IN [calls |-> [i \in 1..Len(logs) |-> [log |-> logs[i], timeout |-> timeout]],
             future |-> [kind |-> "multiFuture", err |-> ""]]

\* a handle applyFunc has returned and the host has not completed yet
PendingHandle == [done |-> FALSE, err |-> "", index |-> 0, response |-> Nil]

\* a caller enters ChunkingApply: the function draws the operation id and
\* builds its entries (logs), which calls nothing that waits.  It returns
\* at once when it has no applyFunc call to make: with an errorFuture, or
\* with a multiFuture over no handle for an empty command
ChunkingApply(cmd, extensions, timeout, rnd) ==
    LET r == ChunkingApplyResult(cmd, extensions, timeout, rnd) IN
    /\ ops' = Append(ops, [cmd |-> cmd, extensions |-> extensions, timeout |-> timeout,
                           rnd |-> rnd, logs |-> [i \in 1..Len(r.calls) |-> r.calls[i].log],
                           calls |-> <<>>, future |-> r.future,
                           returned |-> (Len(r.calls) = 0)])
    /\ handles' = Append(handles, <<>>)
    /\ prog' = Append(prog, 0)
    /\ seen' = Append(seen, {})
    /\ UNCHANGED <<mf, fsmVars, mwVars, index, last, terms, exported, termOf, crafted, batch, restored>>

\* one iteration of the submission loop of call o: applyFunc(log, timeout)
\* for the next entry, whose handle comes back pending (a handle that comes
\* back complete is this step followed by the handle's completion).
\* applyFunc is the host's: between two iterations the host may apply the
\* entries submitted so far, complete their handles, and serve other
\* callers.  After the last iteration the function returns the multiFuture
ApplyFuncCall(o) ==
    /\ o \in 1..Len(ops)
    /\ ~ops[o].returned
    /\ LET i == Len(ops[o].calls) + 1 IN
       /\ ops' = [ops EXCEPT ![o].calls = Append(@, [log |-> ops[o].logs[i],
                                                     timeout |-> ops[o].timeout]),
                             ![o].returned = (i = Len(ops[o].logs))]
       /\ handles' = [handles EXCEPT ![o] = Append(@, PendingHandle)]
    /\ UNCHANGED <<mf, fsmVars, mwVars, hostVars>>

(***************************************************************************)
(* The per-chunk handles and the aggregate future                          *)
(***************************************************************************)
\* the host completes handle k of ops[1]: with an error, or with the log
\* index and the FSM response of that chunk's entry
Complete(k, err) ==
    /\ Len(ops) >= 1
    /\ k \in 1..Len(handles[1])
    /\ ~handles[1][k].done
    /\ handles' = [handles EXCEPT ![1][k] =
                      IF err # "" THEN [done |-> TRUE, err |-> err, index |-> 0, response |-> Nil]
                      ELSE [done |-> TRUE, err |-> "", index |-> 20 + k, response |-> Some(40 + k)]]
    /\ UNCHANGED <<ops, mf, fsmVars, mwVars, hostVars>>

\* the caller calls Error() on the future ChunkingApply has returned.
\* errorFuture.Error returns its error at once; multiFuture.Error enters its
\* loop, which returns nil at once when there is no handle to range over
ErrorCall ==
    /\ Len(ops) >= 1
    /\ ops[1].returned
    /\ mf.pc = "idle"
    /\ mf' = IF ops[1].future.kind = "errorFuture"
             THEN [mf EXCEPT !.pc = "returned", !.ret = ops[1].future.err]
             ELSE IF Len(handles[1]) = 0
             THEN [mf EXCEPT !.pc = "returned", !.ret = ""]
             ELSE [mf EXCEPT !.pc = "waiting", !.i = 1]
    /\ UNCHANGED <<ops, handles, fsmVars, mwVars, hostVars>>

\* mutant: the loop remembers an error and goes on, returning the last one
ErrorLoopLastError(m, hs) ==
    LET err == IF hs[m.i].err # "" THEN hs[m.i].err ELSE m.ret IN
    IF m.i = Len(hs) THEN [m EXCEPT !.pc = "returned", !.ret = err, !.called = @ \cup {m.i}]
    ELSE [m EXCEPT !.i = m.i + 1, !.ret = err, !.called = @ \cup {m.i}]

\* one iteration of the loop of multiFuture.Error: v.Error() blocks until
\* handle i is complete; a non-nil error is returned at once
ErrorLoop(m, hs) ==
    LET err == hs[m.i].err IN
    IF err # "" THEN [m EXCEPT !.pc = "returned", !.ret = err, !.called = @ \cup {m.i}]
    ELSE IF m.i = Len(hs) THEN [m EXCEPT !.pc = "returned", !.ret = "", !.called = @ \cup {m.i}]
    ELSE [m EXCEPT !.i = m.i + 1, !.called = @ \cup {m.i}]

ErrorStep ==
    /\ mf.pc = "waiting"
    /\ handles[1][mf.i].done
    /\ mf' = ErrorLoop(mf, handles[1])
    /\ UNCHANGED <<ops, handles, fsmVars, mwVars, hostVars>>

\* multiFuture.Index and errorFuture.Index
Index(future, hs) ==
    IF future.kind = "errorFuture" THEN 0
    ELSE IF Len(hs) = 0 THEN 0
    ELSE hs[Len(hs)].index

\* multiFuture.Response and errorFuture.Response
Response(future, hs) ==
    IF future.kind = "errorFuture" THEN Nil
    ELSE IF Len(hs) = 0 THEN Nil
    ELSE hs[Len(hs)].response

(***************************************************************************)
(* The decorators.  An Apply returns nil, an error, the wrapped FSM's      *)
(* response, or does not return because the Go runtime panicked.           *)
(***************************************************************************)
RetNil == [kind |-> "nil", err |-> "", val |-> 0]
RetErr(e) == [kind |-> "error", err |-> e, val |-> 0]
RetResp(v) == [kind |-> "response", err |-> "", val |-> v]
RetPanic == [kind |-> "panic", err |-> "index out of range", val |-> 0]

\* Go maps as functions on the set of their keys
EmptyMap == [x \in {} |-> <<>>]
MapPut(m, k, v) == [x \in DOMAIN m \cup {k} |-> IF x = k THEN v ELSE m[x]]
MapDelete(m, k) == [x \in DOMAIN m \ {k} |-> m[x]]

RECURSIVE ConcatChunks(_)
ConcatChunks(chunks) ==
    IF chunks = <<>> THEN <<>> ELSE chunks[1][1].Data \o ConcatChunks(Tail(chunks))

\* MockFSM.Apply: the wrapped FSM records the entry and answers with the
\* number of entries it has received
MockApply(logs, l) == [logs |-> Append(logs, l), ret |-> RetResp(Len(logs) + 1)]

\* mutant: the operation counts as complete once its last slot is filled,
\* whatever placeholders remain, and the chunks received are concatenated
RECURSIVE ConcatReceived(_)
ConcatReceived(chunks) ==
    IF chunks = <<>> THEN <<>>
    ELSE (IF chunks[1] = Nil THEN <<>> ELSE chunks[1][1].Data) \o ConcatReceived(Tail(chunks))

RECURSIVE ApplyLastSlotCompletes(_, _)
ApplyLastSlotCompletes(c, l) ==
    IF l.Type # "LogCommand" \/ l.Extensions = Nil THEN
        LET r == MockApply(c.underlying, l) IN
        [c |-> [c EXCEPT !.underlying = r.logs], ret |-> r.ret]
    ELSE
        LET c1 == IF l.Term # c.lastTerm
                  THEN [c EXCEPT !.opMap = EmptyMap, !.lastTerm = l.Term]
                  ELSE c
            u == Unmarshal(l.Extensions[1])
            ci == u.ci
            opNum == ci.OpNum
            seqNum == ci.SequenceNum
            ok == opNum \in DOMAIN c1.opMap
            chunks0 == IF ok THEN c1.opMap[opNum] ELSE [i \in 1..ci.NumChunks |-> Nil]
            c2 == [c1 EXCEPT !.opMap = MapPut(@, opNum, chunks0)]
        IN IF ~u.ok THEN [c |-> c1, ret |-> RetErr("error unmarshaling chunk info")]
           ELSE IF seqNum >= Len(chunks0) THEN
               [c |-> [c2 EXCEPT !.panicked = TRUE], ret |-> RetPanic]
           ELSE
               LET chunks == [chunks0 EXCEPT ![seqNum + 1] = Some([Data |-> l.Data])]
                   c3 == [c2 EXCEPT !.opMap = MapPut(@, opNum, chunks)]
               IN IF chunks[Len(chunks)] = Nil
                  THEN [c |-> c3, ret |-> RetNil]
                  ELSE LET logToApply == [Index |-> l.Index, Term |-> l.Term, Type |-> l.Type,
                                          Data |-> ConcatReceived(chunks),
                                          Extensions |-> ci.NextExtensions,
                                          ChunkInfo |-> Nil]
                       IN ApplyLastSlotCompletes([c3 EXCEPT !.opMap = MapDelete(@, opNum)],
                                                 logToApply)

\* mutant: the term is compared before the entry is looked at, so a plain
\* entry of another term empties the table too
RECURSIVE ApplyTermCheckFirst(_, _)
ApplyTermCheckFirst(c, l) ==
    LET c1 == IF l.Term # c.lastTerm
              THEN [c EXCEPT !.opMap = EmptyMap, !.lastTerm = l.Term]
              ELSE c
    IN IF l.Type # "LogCommand" \/ l.Extensions = Nil THEN
           LET r == MockApply(c1.underlying, l) IN
           [c |-> [c1 EXCEPT !.underlying = r.logs], ret |-> r.ret]
       ELSE
           LET u == Unmarshal(l.Extensions[1])
               ci == u.ci
               opNum == ci.OpNum
               seqNum == ci.SequenceNum
               ok == opNum \in DOMAIN c1.opMap
               chunks0 == IF ok THEN c1.opMap[opNum] ELSE [i \in 1..ci.NumChunks |-> Nil]
               c2 == [c1 EXCEPT !.opMap = MapPut(@, opNum, chunks0)]
           IN IF ~u.ok THEN [c |-> c1, ret |-> RetErr("error unmarshaling chunk info")]
              ELSE IF seqNum >= Len(chunks0) THEN
                  [c |-> [c2 EXCEPT !.panicked = TRUE], ret |-> RetPanic]
              ELSE
                  LET chunks == [chunks0 EXCEPT ![seqNum + 1] = Some([Data |-> l.Data])]
                      c3 == [c2 EXCEPT !.opMap = MapPut(@, opNum, chunks)]
                  IN IF \E i \in 1..Len(chunks) : chunks[i] = Nil \/ Len(chunks[i][1].Data) = 0
                     THEN [c |-> c3, ret |-> RetNil]
                     ELSE LET logToApply == [Index |-> l.Index, Term |-> l.Term, Type |-> l.Type,
                                             Data |-> ConcatChunks(chunks),
                                             Extensions |-> ci.NextExtensions,
                                             ChunkInfo |-> Nil]
                          IN ApplyTermCheckFirst([c3 EXCEPT !.opMap = MapDelete(@, opNum)],
                                                 logToApply)

\* mutant: a new term removes the chunks of the entry's own operation only
RECURSIVE ApplyTermClearsOwnOp(_, _)
ApplyTermClearsOwnOp(c, l) ==
    IF l.Type # "LogCommand" \/ l.Extensions = Nil THEN
        LET r == MockApply(c.underlying, l) IN
        [c |-> [c EXCEPT !.underlying = r.logs], ret |-> r.ret]
    ELSE
        LET u == Unmarshal(l.Extensions[1])
            ci == u.ci
            opNum == ci.OpNum
            seqNum == ci.SequenceNum
            c1 == IF l.Term # c.lastTerm
                  THEN [c EXCEPT !.opMap = MapDelete(@, opNum), !.lastTerm = l.Term]
                  ELSE c
            ok == opNum \in DOMAIN c1.opMap
            chunks0 == IF ok THEN c1.opMap[opNum] ELSE [i \in 1..ci.NumChunks |-> Nil]
            c2 == [c1 EXCEPT !.opMap = MapPut(@, opNum, chunks0)]
        IN IF ~u.ok THEN [c |-> c1, ret |-> RetErr("error unmarshaling chunk info")]
           ELSE IF seqNum >= Len(chunks0) THEN
               [c |-> [c2 EXCEPT !.panicked = TRUE], ret |-> RetPanic]
           ELSE
               LET chunks == [chunks0 EXCEPT ![seqNum + 1] = Some([Data |-> l.Data])]
                   c3 == [c2 EXCEPT !.opMap = MapPut(@, opNum, chunks)]
               IN IF \E i \in 1..Len(chunks) : chunks[i] = Nil \/ Len(chunks[i][1].Data) = 0
                  THEN [c |-> c3, ret |-> RetNil]
                  ELSE LET logToApply == [Index |-> l.Index, Term |-> l.Term, Type |-> l.Type,
                                          Data |-> ConcatChunks(chunks),
                                          Extensions |-> ci.NextExtensions,
                                          ChunkInfo |-> Nil]
                       IN ApplyTermClearsOwnOp([c3 EXCEPT !.opMap = MapDelete(@, opNum)],
                                               logToApply)

\* ChunkingFSM.Apply of part_003 on receiver c = [opMap, lastTerm, underlying,
\* panicked]: the receiver after the call and the value returned
RECURSIVE Apply(_, _)
Apply(c, l) ==
    IF l.Type # "LogCommand" \/ l.Extensions = Nil THEN
        LET r == MockApply(c.underlying, l) IN
        [c |-> [c EXCEPT !.underlying = r.logs], ret |-> r.ret]
    ELSE
        LET c1 == IF l.Term # c.lastTerm
                  THEN [c EXCEPT !.opMap = EmptyMap, !.lastTerm = l.Term]
                  ELSE c
            u == Unmarshal(l.Extensions[1])
            ci == u.ci
            opNum == ci.OpNum
            seqNum == ci.SequenceNum
            ok == opNum \in DOMAIN c1.opMap
            chunks0 == IF ok THEN c1.opMap[opNum] ELSE [i \in 1..ci.NumChunks |-> Nil]
            c2 == [c1 EXCEPT !.opMap = MapPut(@, opNum, chunks0)]
        IN IF ~u.ok THEN [c |-> c1, ret |-> RetErr("error unmarshaling chunk info")]
           ELSE IF seqNum >= Len(chunks0) THEN
               \* chunks[seqNum]: index out of range
               [c |-> [c2 EXCEPT !.panicked = TRUE], ret |-> RetPanic]
           ELSE
               LET chunks == [chunks0 EXCEPT ![seqNum + 1] = Some([Data |-> l.Data])]
                   c3 == [c2 EXCEPT !.opMap = MapPut(@, opNum, chunks)]
               IN IF \E i \in 1..Len(chunks) : chunks[i] = Nil \/ Len(chunks[i][1].Data) = 0
                  THEN [c |-> c3, ret |-> RetNil]
                  ELSE LET logToApply == [Index |-> l.Index, Term |-> l.Term, Type |-> l.Type,
                                          Data |-> ConcatChunks(chunks),
                                          Extensions |-> ci.NextExtensions,
                                          ChunkInfo |-> Nil]
                       IN Apply([c3 EXCEPT !.opMap = MapDelete(@, opNum)], logToApply)

\* the term and sequence checks of the reconstruction loop of part_004
RECURSIVE Reconstruct(_, _, _)
Reconstruct(chunks, i, term) ==
    IF i > Len(chunks) THEN ""
    ELSE IF chunks[i].seqNum # i - 1 THEN "ErrMissingChunk"
    ELSE IF chunks[i].term # term THEN "ErrTermMismatch"
    ELSE Reconstruct(chunks, i + 1, term)

RECURSIVE ConcatMwChunks(_)
ConcatMwChunks(chunks) ==
    IF chunks = <<>> THEN <<>> ELSE chunks[1].data \o ConcatMwChunks(Tail(chunks))

\* ChunkingFSM.Apply of part_004 (package middleware) on receiver
\* c = [opMap, underlying]; the chunk metadata is the entry's ChunkInfo
RECURSIVE MwApply(_, _)
MwApply(c, l) ==
    IF l.ChunkInfo = Nil THEN
        LET r == MockApply(c.underlying, l) IN
        [c |-> [c EXCEPT !.underlying = r.logs], ret |-> r.ret]
    ELSE
        LET opID == l.ChunkInfo[1].OpID
            seqNum == l.ChunkInfo[1].SequenceNum
            ok == opID \in DOMAIN c.opMap
            chunks0 == IF ok THEN c.opMap[opID] ELSE <<>>
            chunks == Append(chunks0, [term |-> l.Term, seqNum |-> seqNum, data |-> l.Data])
        IN IF opID = 0 THEN [c |-> c, ret |-> RetErr("ErrInvalidOpID")]
           ELSE IF ~ok /\ seqNum # 0 THEN [c |-> c, ret |-> RetErr("ErrNoExistingChunks")]
           ELSE IF seqNum # Len(chunks0) THEN
               [c |-> [c EXCEPT !.opMap = MapDelete(@, opID)],
                ret |-> RetErr("ErrSequenceNumberMismatch")]
           ELSE IF l.ChunkInfo[1].SequenceNum = l.ChunkInfo[1].NumChunks - 1 THEN
               LET err == Reconstruct(chunks, 1, chunks[1].term) IN
               IF err # "" THEN [c |-> c, ret |-> RetErr(err)]
               ELSE MwApply(c, [Index |-> l.Index, Term |-> l.Term, Type |-> l.Type,
                                Data |-> ConcatMwChunks(chunks), Extensions |-> Nil,
                                ChunkInfo |-> Nil])
           ELSE [c |-> [c EXCEPT !.opMap = MapPut(@, opID, chunks)], ret |-> RetNil]

\* the entry as the part_004 decorator is given it: the chunk metadata in
\* the raft.Log's ChunkInfo field (OpID, SequenceNum, NumChunks), as the
\* encoder of that version of the package attaches it
WithChunkInfo(l) ==
    IF l.Extensions = Nil \/ ~Unmarshal(l.Extensions[1]).ok THEN l
    ELSE LET ci == Unmarshal(l.Extensions[1]).ci IN
         [l EXCEPT !.ChunkInfo = Some([OpID |-> ci.OpNum, SequenceNum |-> ci.SequenceNum,
                                       NumChunks |-> ci.NumChunks])]

(***************************************************************************)
(* The host: it hands entries to Apply one at a time, each with its log    *)
(* index and term.                                                         *)
(***************************************************************************)
\* the terms entries carry (a new decorator has seen term 0)
Terms == {1, 2}
\* concurrent ChunkingApply calls
OpSlots == {1, 2}

\* the host applies the entry of chunk k-1 of ops[o] with term t, to both
\* decorators; a decorator whose process has panicked applies nothing more.
\* The entries of one call are applied in the order they were submitted, an
\* entry whose apply failed being skipped for good, and the terms of the
\* log never decrease
Deliver(o, k, t) ==
    /\ o \in 1..Len(ops)
    /\ k \in 1..Len(ops[o].calls)
    /\ \A j \in seen[o] : j < k
    /\ \A t2 \in terms : t2 <= t
    /\ LET l == [ops[o].calls[k].log EXCEPT !.Index = index + 1, !.Term = t]
           c == [opMap |-> opMap, lastTerm |-> lastTerm, underlying |-> underlying,
                 panicked |-> panicked]
           r == IF panicked THEN [c |-> c, ret |-> RetPanic] ELSE Apply(c, l)
           m == MwApply([opMap |-> mwOpMap, underlying |-> mwUnderlying], WithChunkInfo(l))
       IN /\ opMap' = r.c.opMap
          /\ lastTerm' = r.c.lastTerm
          /\ underlying' = r.c.underlying
          /\ panicked' = r.c.panicked
          /\ mwOpMap' = m.c.opMap
          /\ mwUnderlying' = m.c.underlying
          /\ last' = Some([o |-> o, k |-> k, term |-> t, ret |-> r.ret, mwRet |-> m.ret])
    /\ index' = index + 1
    /\ prog' = [prog EXCEPT ![o] = IF @ = k - 1 THEN k ELSE -1]
    /\ seen' = [seen EXCEPT ![o] = @ \cup {k}]
    /\ terms' = terms \cup {t}
    /\ termOf' = MapPut(termOf, <<o, k>>, t)
    /\ UNCHANGED <<encVars, exported, crafted, batch, restored>>

(***************************************************************************)
(* CurrentState and RestoreState.  A table a caller holds is a Go map of   *)
(* slices: besides its contents, the model keeps what it shares with the   *)
(* decorator's live table (sameMap: it is the live map itself; shared: the  *)
(* operation numbers whose slice is the live table's slice), so that a     *)
(* write Apply makes in place shows in it.                                 *)
(***************************************************************************)
\* mutant: the live map itself is returned
CurrentStateNoCopy(c) == [table |-> c.opMap, sameMap |-> TRUE, shared |-> DOMAIN c.opMap]

\* ChunkingFSM.CurrentState: copystructure.Copy copies the map, its slices
\* and the chunks they point to (it returns no error for these types)
CurrentState(c) == [table |-> c.opMap, sameMap |-> FALSE, shared |-> {}]

\* the table ex a caller holds, after Apply(c, l) has made its writes to
\* the live table: c.opMap = make(ChunkMap) leaves the old map to its
\* holders, c.opMap[opNum] = chunks and delete(c.opMap, opNum) change one
\* map, chunks[seqNum] = ... changes one slice
RECURSIVE Observed(_, _, _)
Observed(c, ex, l) ==
    IF l.Type # "LogCommand" \/ l.Extensions = Nil THEN ex
    ELSE
        LET changed == l.Term # c.lastTerm
            c1 == IF changed THEN [c EXCEPT !.opMap = EmptyMap, !.lastTerm = l.Term] ELSE c
            ex1 == IF changed THEN [ex EXCEPT !.sameMap = FALSE, !.shared = {}] ELSE ex
            u == Unmarshal(l.Extensions[1])
            ci == u.ci
            opNum == ci.OpNum
            seqNum == ci.SequenceNum
            ok == opNum \in DOMAIN c1.opMap
            chunks0 == IF ok THEN c1.opMap[opNum] ELSE [i \in 1..ci.NumChunks |-> Nil]
            ex2 == IF ~ok /\ ex1.sameMap
                   THEN [ex1 EXCEPT !.table = MapPut(@, opNum, chunks0), !.shared = @ \cup {opNum}]
                   ELSE ex1
        IN IF ~u.ok THEN ex1
           ELSE IF seqNum >= Len(chunks0) THEN ex2
           ELSE
               LET chunks == [chunks0 EXCEPT ![seqNum + 1] = Some([Data |-> l.Data])]
                   c3 == [c1 EXCEPT !.opMap = MapPut(@, opNum, chunks)]
                   ex3 == IF opNum \in ex2.shared
                          THEN [ex2 EXCEPT !.table = MapPut(@, opNum, chunks)]
                          ELSE ex2
               IN IF \E i \in 1..Len(chunks) : chunks[i] = Nil \/ Len(chunks[i][1].Data) = 0
                  THEN ex3
                  ELSE LET ex4 == [ex3 EXCEPT !.table = IF ex3.sameMap THEN MapDelete(@, opNum) ELSE @,
                                              !.shared = @ \ {opNum}]
                           logToApply == [Index |-> l.Index, Term |-> l.Term, Type |-> l.Type,
                                          Data |-> ConcatChunks(chunks),
                                          Extensions |-> ci.NextExtensions,
                                          ChunkInfo |-> Nil]
                       IN Observed([c3 EXCEPT !.opMap = MapDelete(@, opNum)], ex4, logToApply)

\* mutant: the entries of the given table are put into the live table,
\* which keeps the operations the given table does not have
RestoreStateMerges(c, state) ==
    [c EXCEPT !.opMap = [id \in DOMAIN c.opMap \cup DOMAIN state |->
                            IF id \in DOMAIN state THEN state[id] ELSE c.opMap[id]]]

\* ChunkingFSM.RestoreState, the import of the pending table: the live table
\* is replaced wholesale, it becomes a table holding the entries of the given
\* one and no other.  lastTerm is no part of the table and stays.  The live
\* table is a table of its own: a write Apply makes later does not show in
\* the table given (the export rule: later mutation of the live table is
\* never observable through a previously exported copy)
RestoreState(c, state) == [c EXCEPT !.opMap = [id \in DOMAIN state |-> state[id]]]

\* a table a caller may make by hand: one operation of two chunks, the
\* first received
HandMadeStates == {MapPut(EmptyMap, 1, <<Some([Data |-> <<77>>]), Nil>>)}

\* an entry without chunk metadata
PlainData == <<99>>
PlainLog == [Index |-> 0, Term |-> 0, Type |-> "LogCommand", Data |-> PlainData,
             Extensions |-> Nil, ChunkInfo |-> Nil]

\* the host applies the entry l, which carries chunk k-1 of ops[o] (o = 0 and
\* k = 0 for a plain entry), to both decorators
HostApply(o, k, l) ==
    LET c == [opMap |-> opMap, lastTerm |-> lastTerm, underlying |-> underlying,
              panicked |-> panicked]
        r == IF panicked THEN [c |-> c, ret |-> RetPanic] ELSE Apply(c, l)
        m == MwApply([opMap |-> mwOpMap, underlying |-> mwUnderlying], WithChunkInfo(l))
    IN /\ opMap' = r.c.opMap
       /\ lastTerm' = r.c.lastTerm
       /\ underlying' = r.c.underlying
       /\ panicked' = r.c.panicked
       /\ mwOpMap' = m.c.opMap
       /\ mwUnderlying' = m.c.underlying
       /\ last' = Some([o |-> o, k |-> k, term |-> l.Term, ret |-> r.ret, mwRet |-> m.ret])
       /\ exported' = IF exported = Nil \/ panicked THEN exported
                      ELSE Some(Observed(c, [exported[1] EXCEPT !.imported = FALSE], l))
       /\ restored' = Nil
       /\ index' = l.Index
       /\ terms' = terms \cup {l.Term}

\* the host applies the entry of chunk k-1 of ops[o] with term t, whichever
\* entries it has applied before: an entry may come again, out of order or
\* without the chunks before it.  The terms of the log never decrease
ApplyAny(o, k, t) ==
    /\ index < MaxApplies
    /\ o \in 1..Len(ops)
    /\ k \in 1..Len(ops[o].calls)
    /\ \A t2 \in terms : t2 <= t
    /\ HostApply(o, k, [ops[o].calls[k].log EXCEPT !.Index = index + 1, !.Term = t])
    /\ prog' = [prog EXCEPT ![o] = IF @ = k - 1 THEN k ELSE -1]
    /\ seen' = [seen EXCEPT ![o] = @ \cup {k}]
    /\ termOf' = MapPut(termOf, <<o, k>>, t)
    /\ UNCHANGED <<encVars, crafted, batch>>

\* the host applies a plain entry with term t
ApplyPlain(t) ==
    /\ index < MaxApplies
    /\ \A t2 \in terms : t2 <= t
    /\ HostApply(0, 0, [PlainLog EXCEPT !.Index = index + 1, !.Term = t])
    /\ UNCHANGED <<encVars, prog, seen, termOf, crafted, batch>>

\* the operation ids, sequence numbers and total counts of hand-made chunk
\* metadata: a count of 0 and of 1, sequence numbers below, at and above a
\* count
CraftedIds == {1}
CraftedSeqs == {0, 1, 2}
CraftedCounts == {0, 1, 2, 3, 4}

\* the payload of the hand-made chunk seq of operation id
CraftedData(id, seq) == <<100 * id + seq>>
\* a chunk-bearing entry with the given metadata and no trailing extension
CraftedLog(id, seq, num) ==
    NewLog(CraftedData(id, seq),
           Some(Marshal([OpNum |-> id, SequenceNum |-> seq, NumChunks |-> num,
                         NextExtensions |-> Nil])))

\* the host applies an entry whose chunk metadata no ChunkingApply call
\* made (o = -1 in last), with term t, to both decorators
ApplyCrafted(id, seq, num, t) ==
    /\ index < MaxApplies
    /\ \A t2 \in terms : t2 <= t
    /\ HostApply(-1, seq + 1, [CraftedLog(id, seq, num) EXCEPT !.Index = index + 1, !.Term = t])
    /\ crafted' = Append(crafted, [OpNum |-> id, SequenceNum |-> seq, NumChunks |-> num,
                                   Term |-> t])
    /\ UNCHANGED <<encVars, prog, seen, termOf, batch>>

(***************************************************************************)
(* ApplyBatch of the batching decorator, over a wrapped FSM that takes     *)
(* batches.                                                                *)
(***************************************************************************)
\* MockBatchFSM.ApplyBatch: the wrapped FSM applies the entries one by one
\* and answers with one response per entry
RECURSIVE MockApplyBatch(_, _)
MockApplyBatch(logs, batchLogs) ==
    IF batchLogs = <<>> THEN [logs |-> logs, rets |-> <<>>]
    ELSE LET r == MockApply(logs, batchLogs[1])
             rest == MockApplyBatch(r.logs, Tail(batchLogs))
         IN [logs |-> rest.logs, rets |-> <<r.ret>> \o rest.rets]

\* the per-entry logic of Apply with the forward to the wrapped FSM put
\* off: the receiver after the entry, the entry to forward if there is one
\* (a plain entry, or the entry rebuilt from an operation this entry
\* completes) and the result when nothing is forwarded
BatchEntry(c, l) ==
    IF l.Type # "LogCommand" \/ l.Extensions = Nil THEN [c |-> c, fwd |-> Some(l), ret |-> RetNil]
    ELSE
        LET c1 == IF l.Term # c.lastTerm
                  THEN [c EXCEPT !.opMap = EmptyMap, !.lastTerm = l.Term]
                  ELSE c
            u == Unmarshal(l.Extensions[1])
            ci == u.ci
            opNum == ci.OpNum
            seqNum == ci.SequenceNum
            ok == opNum \in DOMAIN c1.opMap
            chunks0 == IF ok THEN c1.opMap[opNum] ELSE [i \in 1..ci.NumChunks |-> Nil]
            c2 == [c1 EXCEPT !.opMap = MapPut(@, opNum, chunks0)]
        IN IF ~u.ok THEN [c |-> c1, fwd |-> Nil, ret |-> RetErr("error unmarshaling chunk info")]
           ELSE IF seqNum >= Len(chunks0) THEN
               [c |-> [c2 EXCEPT !.panicked = TRUE], fwd |-> Nil, ret |-> RetPanic]
           ELSE
               LET chunks == [chunks0 EXCEPT ![seqNum + 1] = Some([Data |-> l.Data])]
                   c3 == [c2 EXCEPT !.opMap = MapPut(@, opNum, chunks)]
               IN IF \E i \in 1..Len(chunks) : chunks[i] = Nil \/ Len(chunks[i][1].Data) = 0
                  THEN [c |-> c3, fwd |-> Nil, ret |-> RetNil]
                  ELSE [c |-> [c3 EXCEPT !.opMap = MapDelete(@, opNum)],
                        fwd |-> Some([Index |-> l.Index, Term |-> l.Term, Type |-> l.Type,
                                      Data |-> ConcatChunks(chunks),
                                      Extensions |-> ci.NextExtensions, ChunkInfo |-> Nil]),
                        ret |-> RetNil]

\* the scan of a batch from entry i on: the receiver after it, the entries
\* to forward with the batch positions that brought them about (sent, at),
\* and the results of the entries that forward nothing.  BatchNext takes
\* the outcome e of entry i and goes on with entry i + 1
RECURSIVE BatchScan(_, _, _, _, _, _)
BatchNext(e, logs, i, sent, at, rets) ==
    BatchScan(e.c, logs, i + 1,
              IF e.fwd # Nil THEN Append(sent, e.fwd[1]) ELSE sent,
              IF e.fwd # Nil THEN Append(at, i) ELSE at,
              Append(rets, e.ret))

BatchScan(c, logs, i, sent, at, rets) ==
    IF i > Len(logs) \/ c.panicked THEN [c |-> c, sent |-> sent, at |-> at, rets |-> rets]
    ELSE BatchNext(BatchEntry(c, logs[i]), logs, i, sent, at, rets)

\* mutant: the wrapped FSM's results are returned as they come, from the
\* first position on
ScatterResultsFromFirst(s, r, n) ==
    IF s.c.panicked THEN [c |-> s.c, ret |-> <<>>, calls |-> <<>>]
    ELSE [c |-> [s.c EXCEPT !.underlying = r.logs],
          ret |-> [i \in 1..n |-> IF i <= Len(r.rets) THEN r.rets[i] ELSE RetNil],
          calls |-> <<s.sent>>]

\* the results of a batch of n entries: the results r of the wrapped FSM
\* put at the positions of the entries that brought them about, the results
\* of the scan s at the others; nothing is returned after a fault
ScatterResults(s, r, n) ==
    IF s.c.panicked THEN [c |-> s.c, ret |-> <<>>, calls |-> <<>>]
    ELSE [c |-> [s.c EXCEPT !.underlying = r.logs],
          ret |-> [i \in 1..n |->
                     IF \E j \in 1..Len(s.at) : s.at[j] = i
                     THEN r.rets[CHOOSE j \in 1..Len(s.at) : s.at[j] = i]
                     ELSE s.rets[i]],
          calls |-> <<s.sent>>]

\* the one batch call on the wrapped FSM, with the entries to forward in
\* the order of the batch
ForwardBatch(s, n) == ScatterResults(s, MockApplyBatch(s.c.underlying, s.sent), n)

\* ChunkingBatchingFSM.ApplyBatch: the receiver after the call, the results
\* returned and the batches the wrapped FSM was given
ApplyBatch(c, logs) == ForwardBatch(BatchScan(c, logs, 1, <<>>, <<>>, <<>>), Len(logs))

\* the batches the host may give: w[i] = 0 for a plain entry, w[i] = o for
\* the next chunk of call o not yet given
Batches(n) == UNION {[1..m -> {0} \cup OpSlots] : m \in 1..n}
CountIn(w, i, o) == Cardinality({j \in 1..i : w[j] = o})
\* the chunk of call w[i] at position i of batch w
ChunkAt(w, i) == prog[w[i]] + CountIn(w, i, w[i])

\* the host gives ApplyBatch the batch w, all of term t: each call's
\* entries come in the order submitted, once, in this batch or an earlier
\* one.  A table CurrentState returned shares nothing with the live table
ApplyBatchCall(w, t) ==
    /\ ~panicked
    /\ index + Len(w) <= MaxBatch
    /\ \A t2 \in terms : t2 <= t
    /\ \A i \in 1..Len(w) :
          w[i] # 0 => (w[i] <= Len(ops) /\ prog[w[i]] >= 0 /\ ChunkAt(w, i) <= Len(ops[w[i]].calls))
    /\ LET logs == [i \in 1..Len(w) |->
                       IF w[i] = 0 THEN [PlainLog EXCEPT !.Index = index + i, !.Term = t]
                       ELSE [ops[w[i]].calls[ChunkAt(w, i)].log EXCEPT !.Index = index + i, !.Term = t]]
           r == ApplyBatch([opMap |-> opMap, lastTerm |-> lastTerm, underlying |-> underlying,
                            panicked |-> panicked], logs)
       IN /\ opMap' = r.c.opMap
          /\ lastTerm' = r.c.lastTerm
          /\ underlying' = r.c.underlying
          /\ panicked' = r.c.panicked
          /\ batch' = Some([given |-> [i \in 1..Len(w) |->
                                         [o |-> w[i], k |-> IF w[i] = 0 THEN 0 ELSE ChunkAt(w, i)]],
                            term |-> t, first |-> index + 1, before |-> Len(underlying),
                            ret |-> r.ret, calls |-> r.calls])
    /\ index' = index + Len(w)
    /\ prog' = [o \in DOMAIN prog |-> prog[o] + CountIn(w, Len(w), o)]
    /\ seen' = [o \in DOMAIN seen |-> seen[o] \cup ((prog[o] + 1)..(prog[o] + CountIn(w, Len(w), o)))]
    /\ termOf' = [p \in DOMAIN termOf \cup
                        UNION {{<<o, k>> : k \in (prog[o] + 1)..(prog[o] + CountIn(w, Len(w), o))} :
                               o \in DOMAIN prog} |->
                      IF p \in DOMAIN termOf THEN termOf[p] ELSE t]
    /\ terms' = terms \cup {t}
    /\ UNCHANGED <<encVars, mwVars, last, exported, crafted, restored>>

\* a caller takes the decorator's state; orig remembers the live table at
\* the time of the call
CurrentStateCall ==
    /\ ~panicked
    /\ LET s == CurrentState([opMap |-> opMap, lastTerm |-> lastTerm,
                              underlying |-> underlying, panicked |-> panicked])
       IN exported' = Some([table |-> s.table, sameMap |-> s.sameMap, shared |-> s.shared,
                            orig |-> opMap, imported |-> FALSE])
    /\ UNCHANGED <<encVars, fsmVars, mwVars, index, last, prog, seen, terms, termOf, crafted, batch,
                   restored>>

\* a caller gives RestoreState a state: the table it took before
\* (fromExport), as it holds it now, or a table made by hand
RestoreStateCall(state, fromExport) ==
    /\ ~panicked
    /\ opMap' = RestoreState([opMap |-> opMap, lastTerm |-> lastTerm,
                              underlying |-> underlying, panicked |-> panicked],
                             state).opMap
    /\ exported' = IF exported = Nil THEN exported
                   ELSE Some([exported[1] EXCEPT !.sameMap = FALSE, !.shared = {},
                                                 !.imported = fromExport])
    /\ restored' = Some([state |-> state, fromExport |-> fromExport])
    /\ UNCHANGED <<encVars, lastTerm, underlying, panicked, mwVars, index, last, prog, seen,
                   terms, termOf, crafted, batch>>

(***************************************************************************)
(* Specification of the encoder and its future: one ChunkingApply call,    *)
(* the host completing the handles in any order and applying the submitted *)
(* entries, the caller waiting on the returned future.                     *)
(***************************************************************************)
Init ==
    /\ ops = <<>>
    /\ handles = <<>>
    /\ mf = [pc |-> "idle", i |-> 0, ret |-> "", called |-> {}]
    /\ opMap = EmptyMap
    /\ lastTerm = 0
    /\ underlying = <<>>
    /\ panicked = FALSE
    /\ mwOpMap = EmptyMap
    /\ mwUnderlying = <<>>
    /\ index = 0
    /\ last = Nil
    /\ prog = <<>>
    /\ seen = <<>>
    /\ terms = {}
    /\ exported = Nil
    /\ termOf = EmptyMap
    /\ crafted = <<>>
    /\ batch = Nil
    /\ restored = Nil

NextEnc ==
    \/ /\ Len(ops) = 0
       /\ \E cmd \in Cmds(1), ext \in Exts, timeout \in Timeouts, rnd \in RandOutcomes :
             ChunkingApply(cmd, ext, timeout, rnd)
    \/ ApplyFuncCall(1)
    \/ /\ Len(ops) >= 1
       /\ \E k \in 1..Len(handles[1]), err \in HandleErrs \cup {""} : Complete(k, err)
    \/ ErrorCall
    \/ ErrorStep
    \/ \E k \in 1..NumPieces(MaxCmdLen) : Deliver(1, k, 1)

SpecEnc == Init /\ [][NextEnc]_vars

(***************************************************************************)
(* Specification of the decorators: up to two ChunkingApply calls, run by  *)
(* concurrent callers that submit their entries one applyFunc call at a    *)
(* time, while the host applies the entries submitted so far interleaved,  *)
(* each call's entries in the order submitted and once at most, under      *)
(* terms that never decrease (an entry never applied is one whose          *)
(* per-chunk apply failed).                                                *)
(***************************************************************************)
Next ==
    \/ /\ Len(ops) < Cardinality(OpSlots)
       /\ \E cmd \in Cmds(Len(ops) + 1), ext \in Exts, rnd \in {r \in RandOutcomes : r.err = "" /\ r.n = 8} :
             ChunkingApply(cmd, ext, 1, rnd)
    \/ \E o \in OpSlots : ApplyFuncCall(o)
    \/ \E o \in OpSlots, k \in 1..NumPieces(MaxCmdLen), t \in Terms : Deliver(o, k, t)

Spec == Init /\ [][Next]_vars

(***************************************************************************)
(* Specification of the decorator under any host: the entries two          *)
(* concurrent ChunkingApply calls have submitted so far and plain entries, *)
(* applied in any order and any number of times, at most MaxApplies        *)
(* applies in all.  The first call is any call; the second, which may      *)
(* begin at any time after it, has a command of two chunks, no extension   *)
(* and the operation id 300 (the id of the first call or another one).     *)
(***************************************************************************)
FirstCall ==
    /\ Len(ops) = 0
    /\ \E cmd \in Cmds(1) \ {<<>>}, ext \in Exts,
          rnd \in {r \in RandOutcomes : r.err = "" /\ r.n = 8} :
          ChunkingApply(cmd, ext, 1, rnd)

SecondCall ==
    /\ Len(ops) = 1
    /\ ChunkingApply(Cmd(2, SuggestedMaxDataSize + 1), Nil, 1, [err |-> "", n |-> 8, id |-> 300])

NextFsm ==
    \/ FirstCall
    \/ SecondCall
    \/ \E o \in OpSlots : ApplyFuncCall(o)
    \/ \E o \in OpSlots, k \in 1..NumPieces(MaxCmdLen), t \in Terms : ApplyAny(o, k, t)
    \/ \E t \in Terms : ApplyPlain(t)

SpecFsm == Init /\ [][NextFsm]_vars

(***************************************************************************)
(* Specification of the decorator's state handling: the entries of one     *)
(* ChunkingApply call and plain entries, applied as in SpecFsm, with a     *)
(* caller that takes the state (CurrentState) and gives it back, or gives  *)
(* a table made by hand (RestoreState), between applies.                   *)
(***************************************************************************)
NextState ==
    \/ FirstCall
    \/ ApplyFuncCall(1)
    \/ \E k \in 1..NumPieces(MaxCmdLen), t \in Terms : ApplyAny(1, k, t)
    \/ \E t \in Terms : ApplyPlain(t)
    \/ CurrentStateCall
    \/ /\ exported # Nil
       /\ ~exported[1].imported
       /\ RestoreStateCall(exported[1].table, TRUE)
    \/ \E state \in HandMadeStates : RestoreStateCall(state, FALSE)

SpecState == Init /\ [][NextState]_vars

(***************************************************************************)
(* Specification of the decorators under arbitrary chunk metadata: the     *)
(* host applies at most MaxApplies hand-made chunk-bearing entries, under  *)
(* terms that never decrease.                                              *)
(***************************************************************************)
NextCrafted ==
    \E id \in CraftedIds, seq \in CraftedSeqs, num \in CraftedCounts, t \in Terms :
        ApplyCrafted(id, seq, num, t)

SpecCrafted == Init /\ [][NextCrafted]_vars

(***************************************************************************)
(* Specification of the batching decorator: two ChunkingApply calls (the   *)
(* calls of SpecFsm), whose submitted entries and plain entries the host   *)
(* gives to ApplyBatch in batches, at most MaxBatch entries in all and all *)
(* of one term.                                                            *)
(***************************************************************************)
NextBatch ==
    \/ FirstCall
    \/ SecondCall
    \/ \E o \in OpSlots : ApplyFuncCall(o)
    \/ \E w \in Batches(MaxBatch - index) : ApplyBatchCall(w, 1)

SpecBatch == Init /\ [][NextBatch]_vars

(***************************************************************************)
(* Properties of the encoder and of the aggregate future (SpecEnc)         *)
(***************************************************************************)
\* rand.Read gave the 8 bytes of an operation id
IdGenerated(rnd) == rnd.err = "" /\ rnd.n = 8

RECURSIVE ConcatData(_)
ConcatData(calls) ==
    IF calls = <<>> THEN <<>> ELSE calls[1].log.Data \o ConcatData(Tail(calls))

\* the chunk metadata an entry carries in its Extensions
ChunkInfoOf(log) == Unmarshal(log.Extensions[1]).ci

\* C4: for every command, of any length including 0, the payloads of the
\* chunks a ChunkingApply call submits, concatenated in submission order, are
\* the command once the call has returned (for every call that got its
\* operation id and so chunked the command at all); while the call is still
\* submitting they are the part of the command submitted so far
C4_RoundTrip ==
    \A o \in 1..Len(ops) :
        IdGenerated(ops[o].rnd) =>
            /\ ops[o].returned => ConcatData(ops[o].calls) = ops[o].cmd
            /\ ConcatData(ops[o].calls) =
                   SubSeq(ops[o].cmd, 1, Len(ConcatData(ops[o].calls)))

C4_Witness ==
    /\ Len(ops) >= 1
    /\ IdGenerated(ops[1].rnd)
    /\ Len(ops[1].cmd) = 5
    /\ ops[1].returned
    /\ Len(ops[1].calls) = 3
    /\ ConcatData(ops[1].calls) = ops[1].cmd

\* C5: of a command split into N chunks, the i-th submitted chunk carries
\* sequence number i and total count N; every payload is non-empty and at
\* most SuggestedMaxDataSize long, every payload but the last is exactly that
\* long; the caller's extension is on chunk N-1 and on no other chunk.  The
\* i-th applyFunc call submits the i-th chunk built
C5_ChunkMetadata ==
    \A o \in 1..Len(ops) :
        LET N == Len(ops[o].logs)
        IN \A i \in 1..N :
              LET l == ops[o].logs[i]
                  u == Unmarshal(l.Extensions[1])
              IN /\ i <= Len(ops[o].calls) => ops[o].calls[i].log = l
                 /\ l.Extensions # Nil
                 /\ u.ok
                 /\ u.ci.SequenceNum = i - 1
                 /\ u.ci.NumChunks = N
                 /\ Len(l.Data) > 0
                 /\ Len(l.Data) <= SuggestedMaxDataSize
                 /\ (i < N => Len(l.Data) = SuggestedMaxDataSize)
                 /\ u.ci.NextExtensions = (IF i = N THEN ops[o].extensions ELSE Nil)

C5_Witness ==
    /\ Len(ops) >= 1
    /\ ops[1].returned
    /\ Len(ops[1].calls) = 3
    /\ ops[1].extensions # Nil
    /\ ChunkInfoOf(ops[1].calls[3].log).NextExtensions = ops[1].extensions
    /\ ChunkInfoOf(ops[1].calls[2].log).NextExtensions = Nil
    /\ Len(ops[1].calls[3].log.Data) < SuggestedMaxDataSize

\* C6: every chunk of one ChunkingApply call carries the same operation id,
\* and that id is not zero
C6_OpIdSameAndNonZero ==
    \A o \in 1..Len(ops) :
        \A i \in 1..Len(ops[o].calls) :
            /\ ChunkInfoOf(ops[o].calls[i].log).OpNum = ChunkInfoOf(ops[o].calls[1].log).OpNum
            /\ ChunkInfoOf(ops[o].calls[i].log).OpNum # 0

\* C7: Error() of the future ChunkingApply returned returns only after the
\* Error() of every per-chunk handle has returned
C7_ErrorWaitsForAllHandles ==
    (Len(ops) >= 1 /\ mf.pc = "returned") =>
        \A k \in 1..Len(handles[1]) : handles[1][k].done /\ k \in mf.called

\* the handles that have reported an error
Failed(hs) == {k \in 1..Len(hs) : hs[k].done /\ hs[k].err # ""}
Lowest(S) == CHOOSE k \in S : \A j \in S : k <= j

\* C8: once Error() of the aggregate future has returned, it is nil exactly
\* when no per-chunk handle reports an error and is otherwise the error of
\* the lowest-sequence handle reporting one; Index() and Response() are
\* those of the handle of chunk N-1
C8_AggregateValues ==
    (Len(ops) >= 1 /\ mf.pc = "returned" /\ ops[1].future.kind = "multiFuture") =>
        LET hs == handles[1] IN
        /\ (mf.ret = "") <=> (Failed(hs) = {})
        /\ mf.ret = "" => \A k \in 1..Len(hs) : hs[k].done
        /\ Failed(hs) # {} => mf.ret = hs[Lowest(Failed(hs))].err
        /\ Len(hs) >= 1 =>
              /\ Index(ops[1].future, hs) = hs[Len(hs)].index
              /\ Response(ops[1].future, hs) = hs[Len(hs)].response

C8_Witness ==
    /\ Len(ops) >= 1
    /\ mf.pc = "returned"
    /\ Len(handles[1]) = 3
    /\ handles[1][1].done /\ handles[1][1].err = ""
    /\ handles[1][2].done /\ handles[1][2].err = "ErrNotLeader"
    /\ handles[1][3].done /\ handles[1][3].err = "ErrEnqueueTimeout"
    /\ mf.ret = "ErrNotLeader"
    /\ Index(ops[1].future, handles[1]) = 0

\* C9: the applyFunc invocations of one ChunkingApply call are none at all,
\* when the operation id could not be generated (an already-failed future is
\* returned), and otherwise chunk 0, chunk 1, ... in that order, each once
\* and with the caller's timeout, up to chunk N-1, after which the call
\* returns; whether an earlier handle has completed, or failed, does not
\* count.  A call that fails has submitted nothing
C9_SubmissionSequence ==
    \A o \in 1..Len(ops) :
        LET op == ops[o]
            N == NumPieces(Len(op.cmd))
        IN /\ ~IdGenerated(op.rnd) =>
                 /\ op.calls = <<>>
                 /\ op.returned
                 /\ op.future.kind = "errorFuture"
                 /\ op.future.err # ""
           /\ IdGenerated(op.rnd) =>
                 /\ op.future.kind = "multiFuture"
                 /\ Len(op.calls) <= N
                 /\ op.returned <=> Len(op.calls) = N
                 /\ Len(handles[o]) = Len(op.calls)
                 /\ ~op.returned => ENABLED ApplyFuncCall(o)
                 /\ \A i \in 1..Len(op.calls) :
                       /\ op.calls[i].timeout = op.timeout
                       /\ ChunkInfoOf(op.calls[i].log).SequenceNum = i - 1
                       /\ op.calls[i].log.Data =
                              SubSeq(op.cmd, (i - 1) * SuggestedMaxDataSize + 1,
                                     IF i * SuggestedMaxDataSize < Len(op.cmd)
                                     THEN i * SuggestedMaxDataSize ELSE Len(op.cmd))

\* a call whose three chunks are all submitted and whose first handle has
\* failed while those of the later chunks are still pending
C9_Witness ==
    /\ Len(ops) >= 1
    /\ ops[1].returned
    /\ Len(ops[1].calls) = 3
    /\ ops[1].timeout = 2
    /\ handles[1][1].done /\ handles[1][1].err = "ErrNotLeader"
    /\ ~handles[1][2].done /\ ~handles[1][3].done
    /\ mf.pc = "idle"

\* C10: ChunkingApply on an empty command makes no applyFunc call and (its
\* operation id generated) returns a future whose Error() is nil, whose
\* Index() is 0 and whose Response() is nil; nothing reaches a decorator
C10_EmptyCommand ==
    \A o \in 1..Len(ops) :
        (ops[o].cmd = <<>>) =>
            /\ ops[o].calls = <<>>
            /\ handles[o] = <<>>
            /\ (Len(ops) = 1 => (index = 0 /\ underlying = <<>> /\ mwUnderlying = <<>>))
            /\ IdGenerated(ops[o].rnd) =>
                  /\ ops[o].future.kind = "multiFuture"
                  /\ Index(ops[o].future, handles[o]) = 0
                  /\ Response(ops[o].future, handles[o]) = Nil
                  /\ (o = 1 /\ mf.pc # "idle") => (mf.pc = "returned" /\ mf.ret = "")

C10_Witness ==
    /\ Len(ops) >= 1
    /\ ops[1].cmd = <<>>
    /\ IdGenerated(ops[1].rnd)
    /\ mf.pc = "returned"
    /\ mf.ret = ""

(***************************************************************************)
(* Properties of the decorators (Spec)                                     *)
(***************************************************************************)
\* the number of chunks of the o-th call
OpN(o) == Len(ops[o].logs)
\* no two calls drew the same operation id
DistinctIds == \A o1, o2 \in 1..Len(ops) : o1 # o2 => ops[o1].rnd.id # ops[o2].rnd.id
\* the entries of logs whose data is d
Received(logs, d) == {i \in 1..Len(logs) : logs[i].Data = d}
\* d holds a byte of cmd
SharesByte(d, cmd) == \E i \in 1..Len(d), j \in 1..Len(cmd) : d[i] = cmd[j]

\* C1: when the N > 0 entries of one ChunkingApply call are applied in
\* submission order, all with one term, to a new decorator, Apply returns nil
\* for chunks 0..N-2, the Apply of chunk N-1 returns the wrapped FSM's
\* response, and the wrapped FSM has received exactly one entry, whose data is
\* the command
C1_EndToEnd ==
    \A o \in 1..Len(ops) :
        (/\ ~panicked
         /\ OpN(o) > 0
         /\ prog[o] >= 1
         /\ index = prog[o]
         /\ Cardinality(terms) = 1) =>
            /\ prog[o] < OpN(o) => (last[1].ret = RetNil /\ underlying = <<>>)
            /\ prog[o] = OpN(o) =>
                  /\ last[1].ret = RetResp(1)
                  /\ Len(underlying) = 1
                  /\ underlying[1].Data = ops[o].cmd

\* C2: while a chunk of a call has not been applied, the wrapped FSM has not
\* received that call's command, whichever of its other chunks were applied;
\* and, operation ids being distinct, it has received no byte of it
C2_AllOrNothing ==
    \A o \in 1..Len(ops) :
        (OpN(o) > 0 /\ seen[o] # 1..OpN(o)) =>
            /\ Received(underlying, ops[o].cmd) = {}
            /\ Received(mwUnderlying, ops[o].cmd) = {}
            /\ DistinctIds =>
                  /\ \A i \in 1..Len(underlying) : ~SharesByte(underlying[i].Data, ops[o].cmd)
                  /\ \A i \in 1..Len(mwUnderlying) : ~SharesByte(mwUnderlying[i].Data, ops[o].cmd)

\* chunk 1 of a three-chunk call was skipped, chunks 0 and 2 were applied
C2_Witness ==
    /\ Len(ops) = 2
    /\ DistinctIds
    /\ OpN(1) = 3
    /\ seen[1] = {1, 3}
    /\ OpN(2) = 2
    /\ seen[2] = {1, 2}
    /\ ops[1].rnd.id # 0
    /\ Len(underlying) = 1
    /\ last[1].o = 1
    /\ last[1].ret = RetNil

\* C3: when the chunks of several calls with pairwise distinct operation ids
\* are applied in an interleaving that keeps each call's chunks in order, in
\* one term, every entry the wrapped FSM receives is the whole command of one
\* call, and the command of each call whose chunks have all been applied is
\* received exactly once
C3_Interleaved ==
    (/\ Len(ops) = 2
     /\ ~panicked
     /\ DistinctIds
     /\ \A o \in 1..Len(ops) : prog[o] >= 0
     /\ Cardinality(terms) <= 1) =>
        /\ \A i \in 1..Len(underlying) :
              \E o \in 1..Len(ops) : OpN(o) > 0 /\ underlying[i].Data = ops[o].cmd
        /\ \A o \in 1..Len(ops) :
              OpN(o) > 0 =>
                 Cardinality(Received(underlying, ops[o].cmd)) = (IF prog[o] = OpN(o) THEN 1 ELSE 0)
(***************************************************************************)
(* Properties of the decorator under any host (SpecFsm)                    *)
(***************************************************************************)
\* the chunks the table m holds: the data of every filled slot
Held(m) == UNION {{m[id][i][1].Data : i \in {j \in 1..Len(m[id]) : m[id][j] # Nil}} : id \in DOMAIN m}
\* the chunks <<o, k>> whose submitted entry has data d
ChunksOf(d) == {p \in DOMAIN termOf : ops[p[1]].calls[p[2]].log.Data = d}

\* C11: Apply of an entry without chunk metadata forwards the entry unchanged
\* to the wrapped FSM, once, returns the wrapped FSM's result, and leaves the
\* table and the last term as they were, whatever the table holds and
\* whatever the entry's term
C11_PassThrough ==
    [][(index' = index + 1 /\ last'[1].o = 0 /\ ~panicked) =>
          LET l == [PlainLog EXCEPT !.Index = index', !.Term = last'[1].term] IN
          /\ underlying' = Append(underlying, l)
          /\ last'[1].ret = MockApply(underlying, l).ret
          /\ opMap' = opMap
          /\ lastTerm' = lastTerm
          /\ mwUnderlying' = Append(mwUnderlying, l)
          /\ last'[1].mwRet = MockApply(mwUnderlying, l).ret
          /\ mwOpMap' = mwOpMap]_vars

\* a plain entry of term 2 was applied while chunks of term 1 were held
C11_Witness ==
    /\ last # Nil
    /\ last[1].o = 0
    /\ last[1].term = 2
    /\ ~panicked
    /\ lastTerm = 1
    /\ Cardinality(DOMAIN opMap) = 2
    /\ Cardinality(DOMAIN mwOpMap) = 2
    /\ last[1].ret = RetResp(Len(underlying))
    /\ underlying[Len(underlying)].Data = PlainData

\* C12: a chunk-bearing entry of another term than the last one empties the
\* whole table and records its term before its chunk is stored: after the
\* Apply of a chunk-bearing entry the last term is that entry's term, and
\* every chunk the table holds was carried by an entry of the last term
C12_TermInvalidation ==
    ~panicked =>
        /\ (last # Nil /\ last[1].o # 0) => lastTerm = last[1].term
        /\ \A d \in Held(opMap) :
              /\ ChunksOf(d) # {}
              /\ \A p \in ChunksOf(d) : termOf[p] = lastTerm

\* chunk 0 of the second call was applied in term 1, then chunk 0 of the
\* first in term 2: the table holds the latter only
C12_Witness ==
    /\ Len(ops) = 2
    /\ DistinctIds
    /\ ~panicked
    /\ <<2, 1>> \in DOMAIN termOf
    /\ termOf[<<2, 1>>] = 1
    /\ <<1, 1>> \in DOMAIN termOf
    /\ termOf[<<1, 1>>] = 2
    /\ lastTerm = 2
    /\ DOMAIN opMap = {ops[1].rnd.id}
    /\ Held(opMap) = {ops[1].calls[1].log.Data}
(***************************************************************************)
(* Properties of the decorators on term changes within an operation (Spec) *)
(***************************************************************************)
\* the chunks 0..n-1 of call o, and nothing else of it, were applied in
\* order, and the term changed between two of them
TermChangedWithin(o) ==
    /\ prog[o] >= 2
    /\ \E k \in 2..prog[o] : termOf[<<o, k>>] # termOf[<<o, 1>>]

\* C13: when the chunks 0..k-1 of an operation were applied in one term and
\* its chunk k in another, the Apply of chunk k, and of every later chunk of
\* the operation, returns the no-existing-chunks error, and the wrapped FSM
\* never receives data assembled from chunks of both terms
C13_TermChangeBetweenChunks ==
    \A o \in 1..Len(ops) :
        (~panicked /\ DistinctIds /\ ops[o].rnd.id # 0 /\ TermChangedWithin(o)) =>
            /\ last[1].o = o =>
                  /\ last[1].ret = RetErr("ErrNoExistingChunks")
                  /\ last[1].mwRet = RetErr("ErrNoExistingChunks")
            /\ \A i \in 1..Len(underlying) : ~SharesByte(underlying[i].Data, ops[o].cmd)
            /\ \A i \in 1..Len(mwUnderlying) : ~SharesByte(mwUnderlying[i].Data, ops[o].cmd)

\* C14: when the second and final chunk of a two-chunk operation carries
\* another term than the first, its Apply returns the term-mismatch error,
\* nothing is forwarded to the wrapped FSM, and the table then holds no
\* entry for the operation
C14_TermMismatchAtReconstruction ==
    \A o \in 1..Len(ops) :
        (/\ ~panicked
         /\ DistinctIds
         /\ ops[o].rnd.id # 0
         /\ OpN(o) = 2
         /\ TermChangedWithin(o)
         /\ last[1].o = o) =>
            /\ last[1].mwRet = RetErr("ErrTermMismatch")
            /\ last[1].ret = RetErr("ErrTermMismatch")
            /\ \A i \in 1..Len(underlying) : ~SharesByte(underlying[i].Data, ops[o].cmd)
            /\ \A i \in 1..Len(mwUnderlying) : ~SharesByte(mwUnderlying[i].Data, ops[o].cmd)
            /\ ops[o].rnd.id \notin DOMAIN mwOpMap
            /\ ops[o].rnd.id \notin DOMAIN opMap
(***************************************************************************)
(* Properties of the decorators on sequence numbers and operation ids      *)
(***************************************************************************)
\* this step is the Apply of the entry of chunk k-1 of call o
AppliesChunk(o, k) == index' = index + 1 /\ last'[1].o = o /\ last'[1].k = k
\* the tables m and m2 agree on every operation id but id
SameButFor(m, m2, id) ==
    /\ DOMAIN m \ {id} = DOMAIN m2 \ {id}
    /\ \A x \in DOMAIN m \ {id} : m[x] = m2[x]

\* C15: when a chunk of an operation is applied whose sequence number is not
\* the next one expected for the operation (a gap, a repeat of an earlier
\* chunk, chunk 0 included, or a chunk out of order), Apply returns the
\* sequence-mismatch error, the operation's entry is removed from the table,
\* nothing is forwarded to the wrapped FSM, and the entries of the other
\* operations are unchanged.  Here chunks 0..prog[o]-1 of call o were
\* applied, in order and in one term, and chunk k-1 # prog[o] comes next
C15_SequenceViolation ==
    [][\A o \in 1..Len(ops) : \A k \in 1..OpN(o) :
          (/\ AppliesChunk(o, k)
           /\ ~panicked
           /\ DistinctIds
           /\ ops[o].rnd.id # 0
           /\ prog[o] >= 1
           /\ prog[o] < OpN(o)
           /\ k # prog[o] + 1
           /\ Cardinality(terms') = 1) =>
              /\ last'[1].mwRet = RetErr("ErrSequenceNumberMismatch")
              /\ ops[o].rnd.id \notin DOMAIN mwOpMap'
              /\ mwUnderlying' = mwUnderlying
              /\ SameButFor(mwOpMap, mwOpMap', ops[o].rnd.id)
              /\ last'[1].ret = RetErr("ErrSequenceNumberMismatch")
              /\ ops[o].rnd.id \notin DOMAIN opMap'
              /\ underlying' = underlying
              /\ SameButFor(opMap, opMap', ops[o].rnd.id)]_vars

\* C16: Apply of a chunk with a non-zero sequence number and a non-zero
\* operation id for which the table holds no entry returns the
\* no-existing-chunks error, creates no entry, changes no entry of another
\* operation and forwards nothing to the wrapped FSM
C16_NoPriorChunk ==
    [][\A o \in 1..Len(ops) : \A k \in 2..OpN(o) :
          (AppliesChunk(o, k) /\ ~panicked /\ ops[o].rnd.id # 0) =>
              /\ ops[o].rnd.id \notin DOMAIN mwOpMap =>
                    /\ last'[1].mwRet = RetErr("ErrNoExistingChunks")
                    /\ mwOpMap' = mwOpMap
                    /\ mwUnderlying' = mwUnderlying
              /\ (ops[o].rnd.id \notin DOMAIN opMap /\ last'[1].term = lastTerm) =>
                    /\ last'[1].ret = RetErr("ErrNoExistingChunks")
                    /\ opMap' = opMap
                    /\ underlying' = underlying]_vars

\* C17: Apply of a chunk-bearing entry whose operation id is zero returns
\* the invalid-operation error, whatever its sequence number and count,
\* stores no chunk under id zero and forwards nothing to the wrapped FSM
C17_InvalidOpId ==
    [][\A o \in 1..Len(ops) : \A k \in 1..OpN(o) :
          (AppliesChunk(o, k) /\ ~panicked /\ ops[o].rnd.id = 0) =>
              /\ last'[1].mwRet = RetErr("ErrInvalidOpID")
              /\ 0 \notin DOMAIN mwOpMap'
              /\ mwUnderlying' = mwUnderlying
              /\ last'[1].ret = RetErr("ErrInvalidOpID")
              /\ 0 \notin DOMAIN opMap'
              /\ underlying' = underlying]_vars

\* C18: the table holds an entry for an operation id only between the Apply
\* of the operation's chunk 0 and the Apply of its last chunk, and right
\* after the Apply that receives the last chunk and forwards the command the
\* table holds no entry for the operation
C18_PendingEntryLifecycle ==
    ~panicked =>
        \A o \in 1..Len(ops) :
            (DistinctIds /\ OpN(o) > 0) =>
                /\ ops[o].rnd.id \in DOMAIN opMap => (1 \in seen[o] /\ OpN(o) \notin seen[o])
                /\ ops[o].rnd.id \in DOMAIN mwOpMap => (1 \in seen[o] /\ OpN(o) \notin seen[o])
                /\ (last # Nil /\ last[1].o = o /\ last[1].k = OpN(o)) =>
                      /\ last[1].ret.kind = "response" => ops[o].rnd.id \notin DOMAIN opMap
                      /\ last[1].mwRet.kind = "response" => ops[o].rnd.id \notin DOMAIN mwOpMap
(***************************************************************************)
(* Properties of CurrentState and RestoreState (SpecState)                 *)
(***************************************************************************)
\* C19: the table CurrentState returns is the live table at the time of the
\* call, and no later Apply (adding a chunk, completing an operation,
\* emptying the table at a new term) changes the contents of a table
\* returned before
C19_ExportIndependence ==
    exported # Nil => exported[1].table = exported[1].orig

\* the state was taken with two of three chunks held, then the last chunk
\* was applied and the command forwarded
C19_Witness ==
    /\ exported # Nil
    /\ ~exported[1].imported
    /\ ~panicked
    /\ Len(ops) = 1
    /\ OpN(1) = 3
    /\ prog[1] = 3
    /\ Held(exported[1].table) = {ops[1].calls[1].log.Data, ops[1].calls[2].log.Data}
    /\ opMap = EmptyMap
    /\ Received(underlying, ops[1].cmd) # {}

\* the table after the entries of call o but the last were applied in
\* order to a new decorator: no operation when the call has one chunk or
\* none (nothing was applied), else the operation of call o with every slot
\* but the last filled
AllButLast(o) ==
    IF OpN(o) <= 1 THEN EmptyMap
    ELSE MapPut(EmptyMap, ops[o].rnd.id,
                [i \in 1..OpN(o) |->
                    IF i < OpN(o) THEN Some([Data |-> ops[o].logs[i].Data]) ELSE Nil])

Reconstructed(o, idx, t) ==
    [Index |-> idx, Term |-> t, Type |-> "LogCommand", Data |-> ops[o].cmd,
     Extensions |-> ops[o].extensions, ChunkInfo |-> Nil]

\* C23: when the last chunk of an operation is applied, its other chunks
\* having been applied in order in the same term, the wrapped FSM receives
\* exactly one more entry, which has the triggering entry's index, term and
\* type, the command as data and the final chunk's trailing extension as
\* extension; Apply returns the wrapped FSM's result for it and the table
\* holds no entry for the operation, for every trailing extension
C23_ReconstructedEntry ==
    [][\A o \in 1..Len(ops) :
          (/\ OpN(o) > 0
           /\ AppliesChunk(o, OpN(o))
           /\ ~panicked
           /\ DistinctIds
           /\ prog[o] = OpN(o) - 1
           /\ Cardinality(terms') = 1) =>
              LET e == Reconstructed(o, index', last'[1].term) IN
              /\ underlying' = Append(underlying, e)
              /\ last'[1].ret = MockApply(underlying, e).ret
              /\ ops[o].rnd.id \notin DOMAIN opMap']_vars
(***************************************************************************)
(* Properties of the decorators under arbitrary chunk metadata             *)
(* (SpecCrafted)                                                           *)
(***************************************************************************)
\* the values an Apply that returns can return
Returned(ret) == ret.kind \in {"nil", "error", "response"}

\* C24: for every chunk-bearing entry, whatever its sequence number and
\* declared total count, Apply returns nil, an error value or the wrapped
\* FSM's result: it never faults
C24_ApplyTotal ==
    /\ ~panicked
    /\ last # Nil => (Returned(last[1].ret) /\ Returned(last[1].mwRet))

\* the command whose n chunks are the hand-made chunks 0..n-1 of operation id
RECURSIVE CraftedCommand(_, _)
CraftedCommand(id, n) ==
    IF n = 0 THEN <<>> ELSE CraftedCommand(id, n - 1) \o CraftedData(id, n - 1)

\* the entries applied so far are the n chunks of one operation, in order
\* and in one term, each declaring the count n but one chunk, neither the
\* first nor the last, which declares n + 1
CorruptedCount(n) ==
    /\ Len(crafted) = n
    /\ \A i \in 1..n :
          /\ crafted[i].OpNum = crafted[1].OpNum
          /\ crafted[i].Term = crafted[1].Term
          /\ crafted[i].SequenceNum = i - 1
    /\ \E j \in 2..(n - 1) :
          /\ crafted[j].NumChunks = n + 1
          /\ \A i \in (1..n) \ {j} : crafted[i].NumChunks = n

\* C22: when one chunk of an n-chunk operation, neither the first nor the
\* last, declares n + 1 chunks and the n chunks are applied in order in one
\* term, the Apply of the last chunk does not return the wrapped FSM's
\* result as it does for the uncorrupted operation, and the wrapped FSM has
\* not received the original command
C22_CorruptedCount ==
    \A n \in 3..MaxApplies :
        (CorruptedCount(n) /\ ~panicked) =>
            /\ last[1].ret.kind # "response"
            /\ Received(underlying, CraftedCommand(crafted[1].OpNum, n)) = {}
            /\ last[1].mwRet.kind # "response"
            /\ Received(mwUnderlying, CraftedCommand(crafted[1].OpNum, n)) = {}

\* the slots of a part_003 entry that hold a received chunk
Filled(chunks) == {i \in 1..Len(chunks) : chunks[i] # Nil}
\* the hand-made entries that carried chunk 0 of operation id
FirstChunks(id) == {i \in 1..Len(crafted) : crafted[i].OpNum = id /\ crafted[i].SequenceNum = 0}
\* the total count declared for the operation a part_004 entry belongs to:
\* the entry was made by the last chunk 0 of the operation (a chunk 0 that
\* finds an entry removes it), and that chunk declared it
MwDeclared(id) ==
    crafted[CHOOSE i \in FirstChunks(id) : \A j \in FirstChunks(id) : j <= i].NumChunks

\* C25: in every state reached from an empty table by Apply calls, each
\* entry of the table holds at least one received chunk and strictly fewer
\* received chunks than the total count declared for its operation (the
\* slots of a part_003 entry are as many as that count), for every declared
\* count
C25_BoundedPending ==
    /\ ~panicked =>
          \A id \in DOMAIN opMap :
              /\ Cardinality(Filled(opMap[id])) >= 1
              /\ Cardinality(Filled(opMap[id])) < Len(opMap[id])
    /\ \A id \in DOMAIN mwOpMap :
          /\ Len(mwOpMap[id]) >= 1
          /\ FirstChunks(id) # {}
          /\ Len(mwOpMap[id]) < MwDeclared(id)
(***************************************************************************)
(* Properties of the batching decorator (SpecBatch)                        *)
(***************************************************************************)
\* the batch entry g = [o, k] of term t is the last chunk of its call, and
\* every chunk of the call was given in term t
Completes(g, t) ==
    /\ g.o # 0
    /\ g.k = OpN(g.o)
    /\ \A k \in 1..OpN(g.o) : termOf[<<g.o, k>>] = t
\* the positions of the batch b whose entry has an entry forwarded: the
\* plain entries and the entries that complete an operation
ForwardingAt(b) ==
    {i \in 1..Len(b.given) : b.given[i].o = 0 \/ Completes(b.given[i], b.term)}
\* the entry forwarded because of position i of the batch b
ForwardedFor(b, i) ==
    IF b.given[i].o = 0 THEN [PlainLog EXCEPT !.Index = b.first + i - 1, !.Term = b.term]
    ELSE Reconstructed(b.given[i].o, b.first + i - 1, b.term)
\* how many of the positions 1..i of the batch b have an entry forwarded
RankAt(b, i) == Cardinality({j \in ForwardingAt(b) : j <= i})

\* C21: for a batch that interleaves chunks of several operations and plain
\* entries, ApplyBatch makes exactly one batch call on the wrapped FSM, with
\* the plain entries and the entries rebuilt from the operations the batch
\* completes, in the order of the batch; it returns as many results as the
\* batch has entries, at position i the wrapped FSM's result for the entry
\* forwarded because of batch entry i, and nil where the entry only added a
\* chunk
C21_BatchAlignment ==
    (batch # Nil /\ ~panicked /\ DistinctIds) =>
        LET b == batch[1] IN
        /\ Len(b.calls) = 1
        /\ Len(b.calls[1]) = Cardinality(ForwardingAt(b))
        /\ \A i \in ForwardingAt(b) : b.calls[1][RankAt(b, i)] = ForwardedFor(b, i)
        /\ Len(b.ret) = Len(b.given)
        /\ \A i \in 1..Len(b.given) :
              b.ret[i] = IF i \in ForwardingAt(b) THEN RetResp(b.before + RankAt(b, i)) ELSE RetNil
        /\ Len(underlying) = b.before + Cardinality(ForwardingAt(b))

\* one batch on a new decorator: the first chunks of two two-chunk
\* operations, then their second chunks, then a plain entry
C21_Witness ==
    /\ batch # Nil
    /\ ~panicked
    /\ Len(ops) = 2
    /\ DistinctIds
    /\ OpN(1) = 2
    /\ OpN(2) = 2
    /\ ops[1].extensions # Nil
    /\ batch[1].first = 1
    /\ batch[1].given = <<[o |-> 1, k |-> 1], [o |-> 2, k |-> 1], [o |-> 1, k |-> 2],
                          [o |-> 2, k |-> 2], [o |-> 0, k |-> 0]>>
    /\ batch[1].ret = <<RetNil, RetNil, RetResp(1), RetResp(2), RetResp(3)>>
    /\ Len(batch[1].calls) = 1
    /\ batch[1].calls[1][1].Data = ops[1].cmd
    /\ batch[1].calls[1][2].Data = ops[2].cmd
    /\ batch[1].calls[1][3].Data = PlainData
====
